---- MODULE Spec2Model ----
(***************************************************************************)
(* The concurrent crawl scheduler of the search engine, in its two         *)
(* versions: Crawler::crawl (src/crawler/mod.rs, used by the Tantivy       *)
(* indexer) and Spider::crawl (src/spider/mod.rs, used by main.rs).        *)
(* One coordinator loop pops URLs from a shared queue and spawns one       *)
(* fetch task per new URL; a semaphore of `concurrency` permits bounds the *)
(* tasks in flight.  Every step below is one critical section or one       *)
(* await point of the source.                                              *)
(***************************************************************************)
EXTENDS Integers, Sequences, FiniteSets, TLC

(***************************************************************************)
(* Bounds of the model.  The call sites pass positive values               *)
(* (page_limit 200 / 1500, concurrency 10), so both ranges start at 1.     *)
(***************************************************************************)
MaxLimit == 4
MaxConc == 2
MaxSources == 3
MaxQueryLen == 2
MaxUrls == 12
HighOutDegree == 10

(***************************************************************************)
(* The web the crawl runs against (the environment).  A, B, C form a       *)
(* graph with a cycle (A -> B -> A), a self-link (C -> C) and a page that  *)
(* is linked twice (C); D is not linked from anywhere and redirects to A:   *)
(* a request for D is answered with A's document and A as the final URL.   *)
(* "::bad" is a string that Url::parse rejects.  C carries a paywall       *)
(* marker.                                                                 *)
(* P, Q, R form a second site without cycles: P -> Q, R; Q -> R; R links   *)
(* to nothing.                                                             *)
(***************************************************************************)
Malformed == {"::bad"}
Pages == {"A", "B", "C", "D", "P", "Q", "R"}
Seeds == {"A", "D", "P", "::bad"}
NoWords == [t \in {} |-> 0]

Web ==
  [u \in Pages |->
     CASE u = "A" -> [final_url |-> "A", links |-> <<"B", "C">>,
                      words |-> ("rust" :> 2) @@ ("web" :> 1),
                      meta |-> NoWords, paywalled |-> FALSE]
       [] u = "B" -> [final_url |-> "B", links |-> <<"A", "C">>,
                      words |-> ("rust" :> 1),
                      meta |-> NoWords, paywalled |-> FALSE]
       [] u = "C" -> [final_url |-> "C", links |-> <<"C">>,
                      words |-> ("web" :> 3),
                      meta |-> ("rust" :> 1), paywalled |-> TRUE]
       [] u = "D" -> [final_url |-> "A", links |-> <<"B", "C">>,
                      words |-> ("rust" :> 2) @@ ("web" :> 1),
                      meta |-> NoWords, paywalled |-> FALSE]
       [] u = "P" -> [final_url |-> "P", links |-> <<"Q", "R">>,
                      words |-> ("rust" :> 1) @@ ("index" :> 1),
                      meta |-> NoWords, paywalled |-> FALSE]
       [] u = "Q" -> [final_url |-> "Q", links |-> <<"R">>,
                      words |-> ("rust" :> 3),
                      meta |-> NoWords, paywalled |-> FALSE]
       [] u = "R" -> [final_url |-> "R", links |-> <<>>,
                      words |-> ("rust" :> 1) @@ ("web" :> 2),
                      meta |-> NoWords, paywalled |-> FALSE]]

\* The body a server sends with a non-success status (an error page with a
\* link home).
ErrorPage(u) ==
  [final_url |-> u, links |-> <<"A">>, words |-> ("found" :> 1),
   meta |-> NoWords, paywalled |-> FALSE]

Range(s) == {s[i] : i \in 1..Len(s)}

VARIABLES
  variant,      \* "Crawler" or "Spider": which version of crawl runs
  seed,         \* start_url
  limit,        \* page limit
  concurrency,  \* number of permits of the semaphore
  visited,      \* self.visited
  queue,        \* self.queue
  permits,      \* semaphore.available_permits()
  pc,           \* the coordinator's position in crawl
  url,          \* the coordinator's local `url`
  tasks,        \* the spawned tasks, in spawn order (index = position in handles)
  joined,       \* number of handles awaited by the final loop
  results,      \* Crawler: the shared results vector
  crawl_data,   \* Spider: the shared CrawlData
  ret,          \* what crawl returned
  score_pc,     \* the position of the scoring phase that follows crawl
  link_graph,   \* the link graph handed to calculate_pagerank
  ranks,        \* calculate_pagerank: `ranks`
  new_ranks,    \* calculate_pagerank: `new_ranks`, as far as it is built
  iter,         \* calculate_pagerank: iterations completed
  total_change, \* calculate_pagerank: `total_change` of the last iteration
  index,        \* the index built from the scores
  file,         \* the persisted index file scored_index.json
  search_pc,    \* the searcher's position in run_searcher
  loaded,       \* run_searcher: `index`, the ScoredIndex read from the file
  query_terms,  \* run_searcher: `query_terms` of the last line read
  listed,       \* run_searcher: the (url, score) lines printed for that query
  index_en_stem, \* the analyzer named "en_stem" on the indexer's Tantivy Index
  tantivy_pc,   \* the Tantivy searcher's position in run_searcher
  query_en_stem \* the analyzer named "en_stem" on the searcher's Tantivy Index

vars == <<variant, seed, limit, concurrency, visited, queue, permits, pc, url,
          tasks, joined, results, crawl_data, ret,
          score_pc, link_graph, ranks, new_ranks, iter, total_change, index,
          file, search_pc, loaded, query_terms, listed,
          index_en_stem, tantivy_pc, query_en_stem>>

inputs == <<variant, seed, limit, concurrency>>

scoring == <<score_pc, link_graph, ranks, new_ranks, iter, total_change, index>>

searching == <<file, search_pc, loaded, query_terms, listed>>

tantivy == <<index_en_stem, tantivy_pc, query_en_stem>>

\* An empty HashMap.
EmptyMap == [u \in {} |-> 0]

\* No index file has been written.
NoFile == [exists |-> FALSE, json |-> EmptyMap]

\* The searcher has been started and has read nothing yet.
SearcherStarted ==
  /\ search_pc = "start"
  /\ loaded = EmptyMap
  /\ query_terms = <<>>
  /\ listed = <<>>

\* No Tantivy Index object exists yet, and the Tantivy searcher has been
\* started.
TantivyIdle ==
  /\ index_en_stem = "none"
  /\ tantivy_pc = "start"
  /\ query_en_stem = "none"

\* Nothing of the scoring phase has run.
ScoringIdle ==
  /\ score_pc = "idle"
  /\ link_graph = EmptyMap
  /\ ranks = EmptyMap
  /\ new_ranks = EmptyMap
  /\ iter = 0
  /\ total_change = 0
  /\ index = EmptyMap

EmptyCrawlData ==
  [page_term_counts |-> [u \in {} |-> NoWords],
   doc_frequencies |-> NoWords,
   link_graph |-> [u \in {} |-> {}]]

\* Crawler::new / Spider::new followed by the first lines of crawl.
Init ==
  /\ variant \in {"Crawler", "Spider"}
  /\ seed \in Seeds
  /\ limit \in 1..MaxLimit
  /\ concurrency \in 1..MaxConc
  /\ visited = {}
  /\ queue = <<seed>>
  /\ permits = concurrency
  /\ pc = "loop"
  /\ url = "none"
  /\ tasks = <<>>
  /\ joined = 0
  /\ results = <<>>
  /\ crawl_data = EmptyCrawlData
  /\ ret = "pending"
  /\ ScoringIdle
  /\ file = NoFile
  /\ SearcherStarted
  /\ TantivyIdle

(***************************************************************************)
(* Scraper::scrape.  What the network does with a request is the           *)
(* environment's choice: a success response, a transport error, a response *)
(* with a non-success status, or no response at all.  Neither client is    *)
(* built with a timeout and the task is spawned without one, so a request  *)
(* that gets no response never returns.  A malformed URL fails in          *)
(* Url::parse before anything is sent.                                     *)
(***************************************************************************)
ScrapeOutcomes(u) ==
  IF u \in Malformed THEN {"bad_url"}
  ELSE {"ok", "transport_error", "http_error", "no_response"}

\* crawler/datascraper.rs: `?` on parse and send, then the status check.
CrawlerScrapeIsOk(o) == o = "ok"

\* spider/datascraper/mod.rs: `?` on parse, send and text; the status is
\* never looked at, so an error page is parsed like any other page.
SpiderScrapeIsOk(o) == o \in {"ok", "http_error"}

ScrapeIsOk(v, o) == IF v = "Crawler" THEN CrawlerScrapeIsOk(o) ELSE SpiderScrapeIsOk(o)

\* The document the scraper parses.
Document(u, o) == IF o = "ok" THEN Web[u] ELSE ErrorPage(u)

\* crawler/datascraper.rs: the ScrapeResult built from the document.
CrawlerScrapeResult(u, o) ==
  LET d == Document(u, o) IN
  [url |-> d.final_url,
   links |-> d.links,
   body_text |-> IF d.paywalled THEN d.meta ELSE d.words,
   is_partial |-> d.paywalled]

\* spider/datascraper/mod.rs: the ScrapeResult built from the document.
SpiderScrapeResult(u, o) ==
  LET d == Document(u, o) IN
  [links |-> d.links, word_counts |-> d.words]

ScrapedLinks(v, u, o) ==
  IF v = "Crawler" THEN CrawlerScrapeResult(u, o).links ELSE SpiderScrapeResult(u, o).links

(***************************************************************************)
(* The coordinator loop of crawl.                                          *)
(***************************************************************************)

\* while self.visited.lock().await.len() < limit
LoopCondition(vis, lim) == Cardinality(vis) < lim

WhileCond ==
  /\ pc = "loop"
  /\ pc' = IF LoopCondition(visited, limit) THEN "check_queue" ELSE "join"
  /\ UNCHANGED <<inputs, tantivy, scoring, searching, visited, queue, permits, url, tasks, joined, results,
                 crawl_data, ret>>

\* if self.queue.lock().await.is_empty() && ... : the left operand.  The
\* queue guard is a temporary of this operand: in current Rust each operand of
\* && is a temporary scope, so the guard is dropped before available_permits()
\* is read and a task may run between the two reads.  (Under the older rule the
\* guard lived to the end of the condition; those runs are the ones below in
\* which no task steps between the two reads.)
ExitCheckQueue ==
  /\ pc = "check_queue"
  /\ pc' = IF queue = <<>> THEN "check_permits" ELSE "acquire"
  /\ UNCHANGED <<inputs, tantivy, scoring, searching, visited, queue, permits, url, tasks, joined, results,
                 crawl_data, ret>>

\* ... && semaphore.available_permits() == concurrency { break; }
AllPermitsAvailable(p, c) == p = c

ExitCheckPermits ==
  /\ pc = "check_permits"
  /\ pc' = IF AllPermitsAvailable(permits, concurrency) THEN "join" ELSE "acquire"
  /\ UNCHANGED <<inputs, tantivy, scoring, searching, visited, queue, permits, url, tasks, joined, results,
                 crawl_data, ret>>

\* let permit = semaphore.clone().acquire_owned().await?;
\* The semaphore is never closed, so the `?` never returns.
Acquire ==
  /\ pc = "acquire"
  /\ permits > 0
  /\ permits' = permits - 1
  /\ pc' = "pop"
  /\ UNCHANGED <<inputs, tantivy, scoring, searching, visited, queue, url, tasks, joined, results, crawl_data, ret>>

\* queue_guard.pop_front(): None => drop(permit); sleep; continue
PopFront ==
  /\ pc = "pop"
  /\ IF queue = <<>>
       THEN /\ permits' = permits + 1
            /\ pc' = "loop"
            /\ UNCHANGED <<queue, url>>
       ELSE /\ url' = Head(queue)
            /\ queue' = Tail(queue)
            /\ pc' = "visit"
            /\ UNCHANGED permits
  /\ UNCHANGED <<inputs, tantivy, scoring, searching, visited, tasks, joined, results, crawl_data, ret>>

\* Faulty version: the membership test is left out.
AlreadyVisitedNever(vis, u) == FALSE

\* if visited_guard.contains(&url) { continue; }
AlreadyVisited(vis, u) == u \in vis

\* visited_guard.insert(url.clone());
VisitedInsert(vis, u) == vis \cup {u}

\* Faulty version: the permit stays with the coordinator and is dropped at the end of
\* the loop body.
PermitsAfterSpawnDropped(p) == p + 1

\* The permit is moved into the spawned task (let _permit = permit), so the
\* coordinator gives nothing back when it spawns.
PermitsAfterSpawn(p) == p

\* Faulty version: the permit is forgotten when the URL is skipped.
PermitsAfterSkipLeaked(p) == p

\* On `continue` the permit goes out of scope and is released.
PermitsAfterSkip(p) == p + 1

\* The coordinator's critical section on the visited set, then tokio::spawn.
Dispatch ==
  /\ pc = "visit"
  /\ IF AlreadyVisited(visited, url)
       THEN /\ permits' = PermitsAfterSkip(permits)
            /\ UNCHANGED <<visited, tasks>>
       ELSE /\ visited' = VisitedInsert(visited, url)
            /\ tasks' = Append(tasks, [url |-> url, pc |-> "scrape",
                                       outcome |-> "none", panicked |-> FALSE])
            /\ permits' = PermitsAfterSpawn(permits)
  /\ url' = "none"
  /\ pc' = "loop"
  /\ UNCHANGED <<inputs, tantivy, scoring, searching, queue, joined, results, crawl_data, ret>>

(***************************************************************************)
(* The spawned task.                                                       *)
(***************************************************************************)

\* Faulty version: the scrape result is unwrapped instead of matched.
TaskPanicsOnErr(o) == TRUE

\* Err(e) => eprintln!(...): the error arm only logs, the task ends normally.
TaskPanics(o) == FALSE

\* Faulty version: the links are pushed whatever scrape returned.
AfterScrapeAlwaysLinks(ok) == "links"

\* match scraper.scrape(&url).await: the Ok arm goes on to the queue, the
\* Err arm to the end of the task.
AfterScrape(ok) == IF ok THEN "links" ELSE "exit"

Scrape(i) ==
  /\ tasks[i].pc = "scrape"
  /\ \E o \in ScrapeOutcomes(tasks[i].url) :
       tasks' = [tasks EXCEPT ![i].outcome = o,
                              ![i].panicked = ~ScrapeIsOk(variant, o) /\ TaskPanics(o),
                              ![i].pc = IF o = "no_response" THEN "hung"
                                        ELSE AfterScrape(ScrapeIsOk(variant, o))]
  /\ UNCHANGED <<inputs, tantivy, scoring, searching, visited, queue, permits, pc, url, joined, results,
                 crawl_data, ret>>

\* Faulty version: the links go to the front of the queue.
PushFrontAll(q, links) == links \o q

\* push_back for every link, under one lock of the queue
PushBackAll(q, links) == q \o links

\* Faulty version: links that are already visited are left out.
LinksPushedUnvisited(links, vis) == SelectSeq(links, LAMBDA l : l \notin vis)

\* The links the loop pushes: all of result.links, nothing is filtered.
LinksPushed(links, vis) == links

\* for link in &result.links { queue_guard.push_back(link.clone()); }
PushLinks(i) ==
  /\ tasks[i].pc = "links"
  /\ queue' = PushBackAll(queue,
                          LinksPushed(ScrapedLinks(variant, tasks[i].url, tasks[i].outcome),
                                      visited))
  /\ tasks' = [tasks EXCEPT ![i].pc = "record"]
  /\ UNCHANGED <<inputs, tantivy, scoring, searching, visited, permits, pc, url, joined, results, crawl_data, ret>>

\* Faulty version: the entry is raised by the word's count on the page.
BumpDocFrequenciesByCount(df, wc) ==
  [t \in DOMAIN df \cup DOMAIN wc |->
     (IF t \in DOMAIN df THEN df[t] ELSE 0) + (IF t \in DOMAIN wc THEN wc[t] ELSE 0)]

\* *doc_frequencies.entry(word).or_insert(0) += 1 for every key of word_counts
BumpDocFrequencies(df, wc) ==
  [t \in DOMAIN df \cup DOMAIN wc |->
     (IF t \in DOMAIN df THEN df[t] ELSE 0) + (IF t \in DOMAIN wc THEN 1 ELSE 0)]

\* HashMap::insert
MapInsert(m, k, v) == [x \in DOMAIN m \cup {k} |-> IF x = k THEN v ELSE m[x]]

\* Faulty version: a page without links gets no entry in the link graph.
SpiderRecordSkipsLinkless(cd, u, r) ==
  [doc_frequencies |-> BumpDocFrequencies(cd.doc_frequencies, r.word_counts),
   link_graph |-> IF r.links = <<>> THEN cd.link_graph
                                    ELSE MapInsert(cd.link_graph, u, Range(r.links)),
   page_term_counts |-> MapInsert(cd.page_term_counts, u, r.word_counts)]

\* Spider: the critical section on crawl_data.
SpiderRecord(cd, u, r) ==
  [doc_frequencies |-> BumpDocFrequencies(cd.doc_frequencies, r.word_counts),
   link_graph |-> MapInsert(cd.link_graph, u, Range(r.links)),
   page_term_counts |-> MapInsert(cd.page_term_counts, u, r.word_counts)]

\* Crawler: results_clone.lock().await.push(scrape_result)
\* Spider: the three updates of crawl_data.
Record(i) ==
  /\ tasks[i].pc = "record"
  /\ IF variant = "Crawler"
       THEN /\ results' = Append(results,
                                 CrawlerScrapeResult(tasks[i].url, tasks[i].outcome))
            /\ UNCHANGED crawl_data
       ELSE /\ crawl_data' = SpiderRecord(crawl_data, tasks[i].url,
                                          SpiderScrapeResult(tasks[i].url, tasks[i].outcome))
            /\ UNCHANGED results
  /\ tasks' = [tasks EXCEPT ![i].pc = "exit"]
  /\ UNCHANGED <<inputs, tantivy, scoring, searching, visited, queue, permits, pc, url, joined, ret>>

\* The end of the async block: _permit is dropped, the JoinHandle completes.
TaskExit(i) ==
  /\ tasks[i].pc = "exit"
  /\ permits' = permits + 1
  /\ tasks' = [tasks EXCEPT ![i].pc = "done"]
  /\ UNCHANGED <<inputs, tantivy, scoring, searching, visited, queue, pc, url, joined, results, crawl_data, ret>>

(***************************************************************************)
(* The end of crawl.                                                       *)
(***************************************************************************)

\* Faulty version: the handles are dropped without being awaited.
HandleReadyAlways(t) == TRUE

\* for handle in handles { handle.await?; }: a handle is ready once its task
\* has ended; a task that panicked makes `?` return the JoinError.
HandleReady(t) == t.pc = "done"

JoinHandle ==
  /\ pc = "join"
  /\ joined < Len(tasks)
  /\ HandleReady(tasks[joined + 1])
  /\ IF tasks[joined + 1].panicked
       THEN /\ ret' = "Err"
            /\ pc' = "done"
            /\ UNCHANGED joined
       ELSE /\ joined' = joined + 1
            /\ UNCHANGED <<ret, pc>>
  /\ UNCHANGED <<inputs, tantivy, scoring, searching, visited, queue, permits, url, tasks, results, crawl_data>>

\* Ok(final_results) / Ok(())
Return ==
  /\ pc = "join"
  /\ joined = Len(tasks)
  /\ ret' = "Ok"
  /\ pc' = "done"
  /\ UNCHANGED <<inputs, tantivy, scoring, searching, visited, queue, permits, url, tasks, joined, results, crawl_data>>

Coordinator ==
  \/ WhileCond
  \/ ExitCheckQueue
  \/ ExitCheckPermits
  \/ Acquire
  \/ PopFront
  \/ Dispatch
  \/ JoinHandle
  \/ Return

Task(i) ==
  \/ Scrape(i)
  \/ PushLinks(i)
  \/ Record(i)
  \/ TaskExit(i)

Next ==
  \/ Coordinator
  \/ \E i \in 1..Len(tasks) : Task(i)

Spec == Init /\ [][Next]_vars

\* The tokio runtime runs every ready task and the coordinator is awaited by
\* main: every step that stays enabled is eventually taken.
FairSpec ==
  /\ Spec
  /\ WF_vars(Coordinator)
  /\ \A i \in 1..(MaxLimit + 1) : WF_vars(i \in 1..Len(tasks) /\ Task(i))

(***************************************************************************)
(* The authority scorer: calculate_pagerank of                             *)
(* src/indexer/algorithms/pagerank.rs (variant "Crawler") and              *)
(* Spider::calculate_pagerank of src/spider/mod.rs (variant "Spider").     *)
(* An f64 is a fixed-point number with six decimals: the integer x stands  *)
(* for x / Scale, and a division rounds towards zero.                      *)
(***************************************************************************)
Scale == 1000000
DAMPING_FACTOR_PCT == 85
MAX_ITERATIONS == 100
CONVERGENCE_THRESHOLD_INV == 10000
SpiderDampingPct == 85
SpiderIterations == 20

\* 0.0001
ConvergenceThreshold == Scale \div CONVERGENCE_THRESHOLD_INV

RECURSIVE SumOf(_)
\* Iterator::sum over the values of a map
SumOf(f) ==
  IF DOMAIN f = {} THEN 0
  ELSE LET k == CHOOSE x \in DOMAIN f : TRUE
       IN f[k] + SumOf([x \in DOMAIN f \ {k} |-> f[x]])

Abs(x) == IF x < 0 THEN -x ELSE x

\* all_urls: the keys chained with the flattened values
AllUrls(g) == DOMAIN g \cup UNION {g[s] : s \in DOMAIN g}

\* incoming_links.get(url): the sources that link to url
IncomingLinks(g, u) == {s \in DOMAIN g : u \in g[s]}

\* Faulty version: a source passes its whole rank to every page it links to.
SourceShareUndivided(g, old, s) == IF s \in DOMAIN old THEN old[s] ELSE 0

\* The closure of the inner map: source_rank / source_out_degree.
SourceShare(g, old, s) ==
  LET source_rank == IF s \in DOMAIN old THEN old[s] ELSE 0
      source_out_degree == IF s \in DOMAIN g THEN Cardinality(g[s]) ELSE 1
  IN IF source_out_degree > 0 THEN source_rank \div source_out_degree ELSE 0

\* Faulty version: the rank of the nodes without outgoing links is shared out
\* over all nodes.
CrawlerNewRankRedistributing(g, old, u) ==
  LET num_pages == Cardinality(AllUrls(g))
      dangling == {s \in AllUrls(g) : s \notin DOMAIN g \/ g[s] = {}}
      rank_from_links ==
        SumOf([s \in IncomingLinks(g, u) |-> SourceShare(g, old, s)])
          + SumOf([s \in dangling |-> old[s] \div num_pages])
  IN ((100 - DAMPING_FACTOR_PCT) * Scale) \div (100 * num_pages)
       + (DAMPING_FACTOR_PCT * rank_from_links) \div 100

\* pagerank.rs: the closure of par_iter().map: one URL's new rank.
CrawlerNewRank(g, old, u) ==
  LET num_pages == Cardinality(AllUrls(g))
      random_jump_rank == ((100 - DAMPING_FACTOR_PCT) * Scale) \div (100 * num_pages)
      rank_from_links == SumOf([s \in IncomingLinks(g, u) |-> SourceShare(g, old, s)])
  IN random_jump_rank + (DAMPING_FACTOR_PCT * rank_from_links) \div 100

\* Spider::calculate_pagerank: the body of the outer loop for one URL.
SpiderNewRank(g, old, u) ==
  LET share(s) == (SpiderDampingPct *
                     ((IF s \in DOMAIN old THEN old[s] ELSE Scale) \div Cardinality(g[s])))
                  \div 100
  IN ((100 - SpiderDampingPct) * Scale) \div 100
       + SumOf([s \in IncomingLinks(g, u) |-> share(s)])

NewRank(v, g, old, u) ==
  IF v = "Crawler" THEN CrawlerNewRank(g, old, u) ELSE SpiderNewRank(g, old, u)

\* The URLs that get a rank: all_urls in pagerank.rs, the keys in Spider.
RankedUrls(v, g) == IF v = "Crawler" THEN AllUrls(g) ELSE DOMAIN g

\* The initial ranks: 1 / num_pages in pagerank.rs, 1.0 in Spider.
InitialRanks(v, g) ==
  [u \in RankedUrls(v, g) |->
     IF v = "Crawler" THEN Scale \div Cardinality(AllUrls(g)) ELSE Scale]

\* Faulty version: an update reads the ranks already computed in this
\* iteration where there are any (Gauss-Seidel).
RanksReadInPlace(old, new) == new @@ old

\* The map a per-URL update reads its source ranks from: `ranks`, the map of
\* the previous iteration, never the map being built.
RanksRead(old, new) == old

\* total_change: the sum of |new_rank - old_rank| over all URLs
TotalChange(old, new) == SumOf([u \in DOMAIN new |-> Abs(new[u] - old[u])])

\* Faulty version: the loop never breaks on convergence.
LoopEndsAtLimitOnly(v, done, change) ==
  done >= (IF v = "Crawler" THEN MAX_ITERATIONS ELSE SpiderIterations)

\* Whether the loop ends after the iteration that made `done` iterations
\* complete: pagerank.rs breaks on convergence or runs out of 0..MAX_ITERATIONS,
\* Spider runs its fixed number of iterations.
LoopEnds(v, done, change) ==
  IF v = "Crawler"
    THEN change < ConvergenceThreshold \/ done >= MAX_ITERATIONS
    ELSE done >= SpiderIterations

\* if link_graph.is_empty() { return HashMap::new(); } and the initial ranks
PRBegin ==
  /\ score_pc = "pagerank"
  /\ IF DOMAIN link_graph = {}
       THEN /\ ranks' = EmptyMap
            /\ score_pc' = "ranked"
       ELSE /\ ranks' = InitialRanks(variant, link_graph)
            /\ score_pc' = "iterate"
  /\ new_ranks' = EmptyMap
  /\ iter' = 0
  /\ total_change' = 0
  /\ UNCHANGED <<inputs, tantivy, searching, visited, queue, permits, pc, url, tasks, joined, results,
                 crawl_data, ret, link_graph, index>>

\* One URL's update of an iteration.  par_iter runs them in any order and in
\* parallel; Spider's loop over the HashMap runs them in the map's order.
PRNodeUpdate(u) ==
  /\ score_pc = "iterate"
  /\ u \in RankedUrls(variant, link_graph) \ DOMAIN new_ranks
  /\ new_ranks' = new_ranks @@
                    (u :> NewRank(variant, link_graph, RanksRead(ranks, new_ranks), u))
  /\ UNCHANGED <<inputs, tantivy, searching, visited, queue, permits, pc, url, tasks, joined, results,
                 crawl_data, ret, score_pc, link_graph, ranks, iter, total_change, index>>

\* The end of an iteration: total_change, ranks = new_ranks, the break.
PREndIteration ==
  /\ score_pc = "iterate"
  /\ DOMAIN new_ranks = RankedUrls(variant, link_graph)
  /\ total_change' = TotalChange(ranks, new_ranks)
  /\ ranks' = new_ranks
  /\ new_ranks' = EmptyMap
  /\ iter' = iter + 1
  /\ score_pc' = IF LoopEnds(variant, iter + 1, total_change') THEN "ranked" ELSE "iterate"
  /\ UNCHANGED <<inputs, tantivy, searching, visited, queue, permits, pc, url, tasks, joined, results,
                 crawl_data, ret, link_graph, index>>

PRNext ==
  \/ PRBegin
  \/ \E u \in AllUrls(link_graph) : PRNodeUpdate(u)
  \/ PREndIteration

RECURSIVE CollectRanks(_, _, _, _)
\* One whole iteration: the new rank of every URL of S, collected into a map.
CollectRanks(v, g, old, S) ==
  IF S = {} THEN EmptyMap
  ELSE LET u == CHOOSE x \in S : TRUE
       IN (u :> NewRank(v, g, old, u)) @@ CollectRanks(v, g, old, S \ {u})

RECURSIVE RankLoop(_, _, _, _)
\* The loop from the iteration with index `done` on.  new_ranks is built in
\* full (it has an entry for every ranked URL) before the loop goes on.
RankLoop(v, g, old, done) ==
  LET new == CollectRanks(v, g, old, RankedUrls(v, g))
  IN IF DOMAIN new = RankedUrls(v, g) /\ LoopEnds(v, done + 1, TotalChange(old, new))
       THEN new
       ELSE RankLoop(v, g, new, done + 1)

\* calculate_pagerank as a function of the graph
PageRank(v, g) ==
  IF DOMAIN g = {} THEN EmptyMap ELSE RankLoop(v, g, InitialRanks(v, g), 0)

(***************************************************************************)
(* The scorer as a function of its argument: the graphs it is applied to   *)
(* are all graphs whose keys are among GraphKeys and whose link targets    *)
(* are among GraphTargets, and two graphs of three crawled pages.          *)
(***************************************************************************)
GraphKeys == {"A", "B"}
GraphTargets == {"A", "B", "C"}

ChainGraph == ("A" :> {"B", "C"}) @@ ("B" :> {"C"}) @@ ("C" :> {})
CycleGraph == ("A" :> {"B"}) @@ ("B" :> {"C"}) @@ ("C" :> {"A"})

Graphs ==
  UNION {[K -> SUBSET GraphTargets] : K \in SUBSET GraphKeys}
    \cup {ChainGraph, CycleGraph}

\* calculate_pagerank is about to be called on one of the graphs.
PRInit ==
  /\ variant \in {"Crawler", "Spider"}
  /\ seed = "A"
  /\ limit = 1
  /\ concurrency = 1
  /\ visited = {}
  /\ queue = <<>>
  /\ permits = 1
  /\ pc = "done"
  /\ url = "none"
  /\ tasks = <<>>
  /\ joined = 0
  /\ results = <<>>
  /\ crawl_data = EmptyCrawlData
  /\ ret = "Ok"
  /\ score_pc = "pagerank"
  /\ link_graph \in Graphs
  /\ ranks = EmptyMap
  /\ new_ranks = EmptyMap
  /\ iter = 0
  /\ total_change = 0
  /\ index = EmptyMap
  /\ file = NoFile
  /\ SearcherStarted
  /\ TantivyIdle

PRSpec == PRInit /\ [][PRNext]_vars

\* The function runs on: par_iter and the loops take their steps.
PRFairSpec == PRSpec /\ WF_vars(PRNext)

(***************************************************************************)
(* The scoring phase that follows the crawl: run_indexer of                *)
(* src/indexer/mod.rs (Crawler, a Tantivy index) and run_indexer of        *)
(* src/main.rs with Spider::build_and_save_index (Spider, a ScoredIndex).  *)
(***************************************************************************)
HalfScale == 1000
FALLBACK_AUTHORITY_INV == 10

\* f64 multiplication: each factor keeps three decimals, so that the product
\* of two numbers of unit 1/Scale is a number of unit 1/Scale.
Mul(x, y) == (x \div HalfScale) * (y \div HalfScale)

\* f64::log10 on the whole numbers the index builder divides
Log10 ==
  [n \in 1..8 |->
     CASE n = 1 -> 0
       [] n = 2 -> 301030
       [] n = 3 -> 477121
       [] n = 4 -> 602060
       [] n = 5 -> 698970
       [] n = 6 -> 778151
       [] n = 7 -> 845098
       [] n = 8 -> 903090]

\* Faulty version: scoring starts as soon as the coordinator loop has ended,
\* without awaiting the handles.
CrawlReturnedOrJoining == pc \in {"join", "done"}

\* crawl(..).await has returned to run_indexer
CrawlReturned == pc = "done"

\* indexer/mod.rs returns on Err before any scoring; main.rs goes on to
\* build_and_save_index whatever crawl returned.
ScoringFollows(v, r) == IF v = "Crawler" THEN r = "Ok" ELSE TRUE

\* indexer/mod.rs 45-48: the (url, links) pairs of the results collected into
\* a HashMap: of two results with the same url the later one stays.
GraphOfResults(rs) ==
  [u \in {rs[i].url : i \in 1..Len(rs)} |->
     LET last == CHOOSE i \in 1..Len(rs) :
                   /\ rs[i].url = u
                   /\ \A j \in 1..Len(rs) : rs[j].url = u => j <= i
     IN Range(rs[last].links)]

\* The link graph is taken: built from scraped_data (Crawler), or read under
\* the lock on crawl_data (Spider).
StartScoring ==
  /\ score_pc = "idle"
  /\ CrawlReturned
  /\ ScoringFollows(variant, ret)
  /\ link_graph' = IF variant = "Crawler" THEN GraphOfResults(results)
                                          ELSE crawl_data.link_graph
  /\ score_pc' = "pagerank"
  /\ UNCHANGED <<inputs, tantivy, searching, visited, queue, permits, pc, url, tasks, joined, results,
                 crawl_data, ret, ranks, new_ranks, iter, total_change, index>>

\* let page_ranks = calculate_pagerank(&link_graph)
RankPages ==
  /\ score_pc = "pagerank"
  /\ ranks' = PageRank(variant, link_graph)
  /\ score_pc' = "ranked"
  /\ UNCHANGED <<inputs, tantivy, searching, visited, queue, permits, pc, url, tasks, joined, results,
                 crawl_data, ret, link_graph, new_ranks, iter, total_change, index>>

\* indexer/mod.rs 85-98: one Tantivy document for every result.
TantivyDocuments(rs, page_ranks) ==
  [i \in 1..Len(rs) |->
     [url |-> rs[i].url,
      body |-> rs[i].body_text,
      pagerank |-> IF rs[i].url \in DOMAIN page_ranks THEN page_ranks[rs[i].url] ELSE 0]]

\* Faulty version: every page gets the fallback authority.
AuthorityScoreFallbackOnly(page_ranks, u) == Scale \div FALLBACK_AUTHORITY_INV

\* page_ranks.get(url).cloned().unwrap_or(0.1)
AuthorityScore(page_ranks, u) ==
  IF u \in DOMAIN page_ranks THEN page_ranks[u] ELSE Scale \div FALLBACK_AUTHORITY_INV

\* tf = count / total_words_on_page
TermFrequency(count, total_words_on_page) == (count * Scale) \div total_words_on_page

\* Faulty version: a smoothed idf, log10((total_docs + 1) / docs_with_word).
InverseDocFrequencySmoothed(total_docs, docs_with_word) ==
  Log10[total_docs + 1] - Log10[docs_with_word]

\* idf = (total_docs / docs_with_word).log10()
InverseDocFrequency(total_docs, docs_with_word) ==
  Log10[total_docs] - Log10[docs_with_word]

\* final_score of one (word, url) pair
FinalScore(cd, page_ranks, u, word) ==
  LET term_counts == cd.page_term_counts[u]
      total_words_on_page == SumOf(term_counts)
      total_docs == Cardinality(DOMAIN cd.page_term_counts)
      docs_with_word == IF word \in DOMAIN cd.doc_frequencies
                          THEN cd.doc_frequencies[word] ELSE 1
      relevance_score == Mul(TermFrequency(term_counts[word], total_words_on_page),
                             InverseDocFrequency(total_docs, docs_with_word))
  IN Mul(relevance_score, AuthorityScore(page_ranks, u))

\* spider/mod.rs 129-154: final_index.scores
ScoredIndex(cd, page_ranks) ==
  LET scored == {u \in DOMAIN cd.page_term_counts : SumOf(cd.page_term_counts[u]) # 0}
      words == UNION {DOMAIN cd.page_term_counts[u] : u \in scored}
  IN [word \in words |->
        [u \in {x \in scored : word \in DOMAIN cd.page_term_counts[x]} |->
           FinalScore(cd, page_ranks, u, word)]]

\* What tantivy's Index::open_or_create, Index::open_in_dir give: the Index
\* has a default TokenizerManager, in which the name "en_stem" is bound to
\* tantivy's built-in analyzer (it drops tokens longer than 40 bytes, which
\* the analyzer of WebpageSchema::register_tokenizer does not).
OpenedIndexEnStem == "builtin"

\* WebpageSchema::register_tokenizer: index.tokenizers().register("en_stem", ..)
RegisterTokenizer(bound) == "registered"

\* The tokenizer calls run_indexer makes between opening the Index and
\* creating the writer: none.
IndexerTokenizerSetup(bound) == bound

\* The index is built and written.  For Crawler: the Index is opened and the
\* documents are added and committed.
BuildIndex ==
  /\ score_pc = "ranked"
  /\ index' = IF variant = "Crawler" THEN TantivyDocuments(results, ranks)
                                     ELSE ScoredIndex(crawl_data, ranks)
  /\ index_en_stem' = IF variant = "Crawler" THEN IndexerTokenizerSetup(OpenedIndexEnStem)
                                             ELSE index_en_stem
  /\ score_pc' = "indexed"
  /\ UNCHANGED <<tantivy_pc, query_en_stem>>
  /\ UNCHANGED <<inputs, searching, visited, queue, permits, pc, url, tasks, joined, results,
                 crawl_data, ret, link_graph, ranks, new_ranks, iter, total_change>>

(***************************************************************************)
(* The persisted ScoredIndex: serde_json::to_string in                     *)
(* build_and_save_index and serde_json::from_reader in run_searcher.  A    *)
(* JSON number is its sign, the digits of its integer part and the digits  *)
(* of its fraction without trailing zeros.                                 *)
(***************************************************************************)
FractionDigits == 6

RECURSIVE Digits(_)
\* the decimal digits of a natural number
Digits(n) == IF n < 10 THEN <<n>> ELSE Append(Digits(n \div 10), n % 10)

RECURSIVE DigitsValue(_)
\* the natural number written by a sequence of digits
DigitsValue(ds) ==
  IF ds = <<>> THEN 0
  ELSE 10 * DigitsValue(SubSeq(ds, 1, Len(ds) - 1)) + ds[Len(ds)]

RECURSIVE Power10(_)
Power10(k) == IF k = 0 THEN 1 ELSE 10 * Power10(k - 1)

RECURSIVE StripZeros(_)
\* the fraction without its trailing zeros
StripZeros(ds) ==
  IF ds # <<>> /\ ds[Len(ds)] = 0 THEN StripZeros(SubSeq(ds, 1, Len(ds) - 1)) ELSE ds

\* the first k digits of the fraction of x
FractionOf(x, k) ==
  [i \in 1..k |-> ((Abs(x) % Scale) \div Power10(FractionDigits - i)) % 10]

\* Faulty version: the number is written with four decimals.
JsonNumberFourDecimals(x) ==
  [negative |-> x < 0,
   integer |-> Digits(Abs(x) \div Scale),
   fraction |-> StripZeros(FractionOf(x, 4))]

\* Serializer::serialize_f64: the shortest text that reads back as x
JsonNumber(x) ==
  [negative |-> x < 0,
   integer |-> Digits(Abs(x) \div Scale),
   fraction |-> StripZeros(FractionOf(x, FractionDigits))]

\* Deserializer: the f64 a JSON number is read as
ParseNumber(j) ==
  LET magnitude == DigitsValue(j.integer) * Scale
                     + DigitsValue(j.fraction) * Power10(FractionDigits - Len(j.fraction))
  IN IF j.negative THEN -magnitude ELSE magnitude

\* serde_json::to_string(&final_index): an object of objects of numbers
ToJson(ix) == [term \in DOMAIN ix |-> [u \in DOMAIN ix[term] |-> JsonNumber(ix[term][u])]]

\* serde_json::from_reader(reader)
FromJson(j) == [term \in DOMAIN j |-> [u \in DOMAIN j[term] |-> ParseNumber(j[term][u])]]

\* spider/mod.rs 156-162: the index is written to the file.
SaveIndex ==
  /\ score_pc = "indexed"
  /\ variant = "Spider"
  /\ file' = [exists |-> TRUE, json |-> ToJson(index)]
  /\ score_pc' = "saved"
  /\ UNCHANGED <<inputs, tantivy, visited, queue, permits, pc, url, tasks, joined, results,
                 crawl_data, ret, link_graph, ranks, new_ranks, iter, total_change, index,
                 search_pc, loaded, query_terms, listed>>

\* main.rs 49-60: run_searcher opens the file and reads the index, or
\* reports that there is no file and returns.
LoadIndex ==
  /\ search_pc = "start"
  /\ IF file.exists
       THEN /\ loaded' = FromJson(file.json)
            /\ search_pc' = "prompt"
       ELSE /\ search_pc' = "exit"
            /\ UNCHANGED loaded
  /\ UNCHANGED <<inputs, tantivy, scoring, visited, queue, permits, pc, url, tasks, joined, results,
                 crawl_data, ret, file, query_terms, listed>>

(***************************************************************************)
(* The query loop of run_searcher (main.rs; src/searcher.rs has the same   *)
(* loop).  A line read from stdin is a sequence of words and runs of       *)
(* whitespace.                                                             *)
(***************************************************************************)
TOP_RESULTS == 10

Whitespace == " "
LineItems == {"rust", "Rust", "web", "WEB", "zzz", "exit", Whitespace}

\* str::to_lowercase
ToLowercase(w) ==
  CASE w = "Rust" -> "rust"
    [] w = "WEB" -> "web"
    [] OTHER -> w

\* query.trim().to_lowercase().split_whitespace().collect()
SplitQuery(line) ==
  LET words == SelectSeq(line, LAMBDA w : w # Whitespace)
  IN [i \in 1..Len(words) |-> ToLowercase(words[i])]

RECURSIVE Aggregate(_, _)
\* The loop over query_terms: *results.entry(url).or_insert(0.0) += score
Aggregate(ix, terms) ==
  IF terms = <<>> THEN EmptyMap
  ELSE LET before == Aggregate(ix, SubSeq(terms, 1, Len(terms) - 1))
           term == terms[Len(terms)]
           url_scores == IF term \in DOMAIN ix THEN ix[term] ELSE EmptyMap
       IN [u \in DOMAIN before \cup DOMAIN url_scores |->
             (IF u \in DOMAIN before THEN before[u] ELSE 0)
               + (IF u \in DOMAIN url_scores THEN url_scores[u] ELSE 0)]

\* The comparator of sort_by: b.1.partial_cmp(&a.1), descending by score.
ComesFirst(a, b) == a >= b

RECURSIVE SortedOrders(_)
\* results.into_iter().collect() followed by the stable sort_by: the HashMap
\* yields its entries in any order, so entries of equal score come in any order.
SortedOrders(res) ==
  IF DOMAIN res = {} THEN {<<>>}
  ELSE LET first == {u \in DOMAIN res : \A x \in DOMAIN res : ComesFirst(res[u], res[x])}
       IN UNION {{<<[url |-> u, score |-> res[u]]>> \o rest :
                    rest \in SortedOrders([x \in DOMAIN res \ {u} |-> res[x]])} :
                 u \in first}

\* Faulty version: every result is printed.
TakeAll(sorted, n) == sorted

\* sorted_results.iter().take(n)
Take(sorted, n) == SubSeq(sorted, 1, IF Len(sorted) < n THEN Len(sorted) ELSE n)

\* read_line and query_terms; an empty query is skipped, "exit" ends the loop.
ReadQuery(line) ==
  /\ search_pc = "prompt"
  /\ query_terms' = SplitQuery(line)
  /\ listed' = <<>>
  /\ search_pc' = IF query_terms' = <<>> THEN "prompt"
                  ELSE IF query_terms' = <<"exit">> THEN "exit"
                  ELSE "search"
  /\ UNCHANGED <<inputs, tantivy, scoring, visited, queue, permits, pc, url, tasks, joined, results,
                 crawl_data, ret, file, loaded>>

\* main.rs 76-97: the scores are summed, sorted and the first ten printed.
Search ==
  /\ search_pc = "search"
  /\ \E sorted_results \in SortedOrders(Aggregate(loaded, query_terms)) :
       listed' = Take(sorted_results, TOP_RESULTS)
  /\ search_pc' = "prompt"
  /\ UNCHANGED <<inputs, tantivy, scoring, visited, queue, permits, pc, url, tasks, joined, results,
                 crawl_data, ret, file, loaded, query_terms>>

RECURSIVE NumberedScores(_)
\* u1 .. un under one term; the scores grow with the number, two URLs each
\* have the same score.
NumberedScores(n) ==
  IF n = 0 THEN EmptyMap
  ELSE (("u" \o ToString(n)) :> ((n \div 2) * 125001)) @@ NumberedScores(n - 1)

\* The index files the searcher is started on: none, an empty index, a small
\* index, and an index with more URLs under a term than are printed.
IndexFiles ==
  {NoFile,
   [exists |-> TRUE, json |-> ToJson(EmptyMap)],
   [exists |-> TRUE,
    json |-> ToJson(("rust" :> (("A" :> 0) @@ ("B" :> 30103) @@ ("C" :> 250000)))
                      @@ ("web" :> (("C" :> 5000) @@ ("B" :> 224897) @@ ("P" :> 75)))
                      @@ ("exit" :> ("E" :> 1000)))],
   [exists |-> TRUE,
    json |-> ToJson(("rust" :> NumberedScores(MaxUrls))
                      @@ ("web" :> (("u1" :> 2000000) @@ ("w" :> 1))))]}

Lines == UNION {[1..n -> LineItems] : n \in 0..MaxQueryLen}

SearchInit ==
  /\ variant = "Spider"
  /\ seed = "A"
  /\ limit = 1
  /\ concurrency = 1
  /\ visited = {}
  /\ queue = <<>>
  /\ permits = 1
  /\ pc = "done"
  /\ url = "none"
  /\ tasks = <<>>
  /\ joined = 0
  /\ results = <<>>
  /\ crawl_data = EmptyCrawlData
  /\ ret = "Ok"
  /\ score_pc = "saved"
  /\ link_graph = EmptyMap
  /\ ranks = EmptyMap
  /\ new_ranks = EmptyMap
  /\ iter = 0
  /\ total_change = 0
  /\ index = EmptyMap
  /\ file \in IndexFiles
  /\ SearcherStarted
  /\ TantivyIdle

SearchNext ==
  \/ LoadIndex
  \/ \E line \in Lines : ReadQuery(line)
  \/ Search

SearchSpec == SearchInit /\ [][SearchNext]_vars

(***************************************************************************)
(* The Tantivy searcher: run_searcher of src/searcher/mod.rs.              *)
(***************************************************************************)
\* Whether the index directory holds an index: run_indexer has committed one.
IndexDirectoryExists == variant = "Crawler" /\ score_pc = "indexed"

\* Index::open_in_dir(index_path), or the error message and return
TantivyOpen ==
  /\ tantivy_pc = "start"
  /\ IF IndexDirectoryExists
       THEN /\ tantivy_pc' = "opened"
            /\ query_en_stem' = OpenedIndexEnStem
       ELSE /\ tantivy_pc' = "exit"
            /\ UNCHANGED query_en_stem
  /\ UNCHANGED <<inputs, scoring, searching, index_en_stem, visited, queue, permits, pc, url,
                 tasks, joined, results, crawl_data, ret>>

\* WebpageSchema::register_tokenizer(&index), then the reader, the searcher
\* and the query parser are made.
TantivyRegister ==
  /\ tantivy_pc = "opened"
  /\ query_en_stem' = RegisterTokenizer(query_en_stem)
  /\ tantivy_pc' = "ready"
  /\ UNCHANGED <<inputs, scoring, searching, index_en_stem, visited, queue, permits, pc, url,
                 tasks, joined, results, crawl_data, ret>>

\* One turn of the loop: "exit" ends it, any other line is parsed by the
\* query parser and run against the index.
TantivyQuery(line) ==
  /\ tantivy_pc \in {"ready", "answered"}
  /\ tantivy_pc' = IF line = "exit" THEN "exit" ELSE "answered"
  /\ UNCHANGED <<inputs, scoring, searching, index_en_stem, query_en_stem, visited, queue,
                 permits, pc, url, tasks, joined, results, crawl_data, ret>>

(***************************************************************************)
(* calculate_pagerank applied in one step to a graph: the graphs above and *)
(* the graphs in which K pages of out-degree 1 link to T1 and K pages of   *)
(* out-degree HighOutDegree link to T2; the K + K sources have no incoming *)
(* links and T1, T2 have no outgoing links.                                *)
(***************************************************************************)
NodeNames(prefix, n) == {prefix \o ToString(i) : i \in 1..n}

DilutionGraph(K) ==
  LET low == NodeNames("s", K)
      high == NodeNames("r", K)
      fillers == NodeNames("x", HighOutDegree - 1)
  IN [n \in low \cup high \cup {"T1", "T2"} |->
        IF n \in low THEN {"T1"}
        ELSE IF n \in high THEN {"T2"} \cup fillers
        ELSE {}]

DilutionGraphs == {DilutionGraph(K) : K \in 1..MaxSources}

RankInit ==
  /\ variant \in {"Crawler", "Spider"}
  /\ seed = "A"
  /\ limit = 1
  /\ concurrency = 1
  /\ visited = {}
  /\ queue = <<>>
  /\ permits = 1
  /\ pc = "done"
  /\ url = "none"
  /\ tasks = <<>>
  /\ joined = 0
  /\ results = <<>>
  /\ crawl_data = EmptyCrawlData
  /\ ret = "Ok"
  /\ score_pc = "pagerank"
  /\ link_graph \in Graphs \cup DilutionGraphs
  /\ ranks = EmptyMap
  /\ new_ranks = EmptyMap
  /\ iter = 0
  /\ total_change = 0
  /\ index = EmptyMap
  /\ file = NoFile
  /\ SearcherStarted
  /\ TantivyIdle

RankSpec == RankInit /\ [][RankPages]_vars

PipeNext ==
  \/ Next
  \/ StartScoring
  \/ RankPages
  \/ BuildIndex
  \/ SaveIndex
  \/ LoadIndex
  \/ TantivyOpen
  \/ TantivyRegister
  \/ \E line \in {"exit", "rust"} : TantivyQuery(line)

PipeSpec == Init /\ [][PipeNext]_vars

(***************************************************************************)
(* Vocabulary of the properties.                                           *)
(***************************************************************************)
TaskIds == 1..Len(tasks)
InFlight == {i \in TaskIds : tasks[i].pc # "done"}
Scraped(t) == t.outcome # "none"
\* scrape returned Err (or will never return)
Failed(t) == Scraped(t) /\ ~ScrapeIsOk(variant, t.outcome)
\* scrape returned Ok
Succeeded(t) == Scraped(t) /\ ScrapeIsOk(variant, t.outcome)
Hung(t) == t.pc = "hung"
\* every request so far got a success response
AllFetchesOk == \A i \in TaskIds : tasks[i].outcome \in {"none", "ok"}
Done == pc = "done"

\* The URLs reachable from u over the links of the web.
RECURSIVE ReachFrom(_, _)
ReachFrom(frontier, seen) ==
  IF frontier \subseteq seen THEN seen
  ELSE ReachFrom(UNION {Range(Web[p].links) : p \in (frontier \ seen) \cap Pages},
                 seen \cup frontier)

Reachable(u) == ReachFrom({u}, {})

\* The tasks launched so far have pairwise different URLs, which are the
\* members of the Visited Set.
DispatchedOnce ==
  /\ \A i, j \in TaskIds : i # j => tasks[i].url # tasks[j].url
  /\ visited = {tasks[i].url : i \in TaskIds}

(***************************************************************************)
(* C1.  No URL is dispatched more than once: the tasks launched so far     *)
(* have pairwise different URLs, they are exactly the members of the       *)
(* Visited Set, and no step ever removes a member of the Visited Set (so a *)
(* URL whose fetch failed is never dispatched again).                      *)
(***************************************************************************)
C1_AtMostOnceDispatch == [](DispatchedOnce) /\ [][visited \subseteq visited']_vars

\* The crawl has ended with A, B and C dispatched once each although C was
\* enqueued by A, by B and by itself, and C's fetch failed.
C1_Witness ==
  /\ Done
  /\ Len(tasks) = 3
  /\ queue = <<>>
  /\ \E i, j \in TaskIds :
       /\ tasks[i].url = "C" /\ tasks[i].outcome = "transport_error"
       /\ tasks[j].url = "B" /\ tasks[j].outcome = "ok"

(***************************************************************************)
(* C2.  The tasks in flight never outnumber the permits taken from the     *)
(* semaphore, so they are at most `concurrency`.                           *)
(***************************************************************************)
C2_BoundedInFlight ==
  /\ permits >= 0
  /\ Cardinality(InFlight) <= concurrency - permits
  /\ Cardinality(InFlight) <= concurrency

\* Two tasks are in flight with both permits of the semaphore taken.
C2_Witness == concurrency = 2 /\ Cardinality(InFlight) = 2 /\ permits = 0

(***************************************************************************)
(* C3.  The Visited Set never holds more than page_limit URLs, and a crawl *)
(* whose fetches all succeed, with page_limit below the number of          *)
(* reachable pages, ends with exactly page_limit URLs dispatched.          *)
(***************************************************************************)
C3_ExactlyLimit ==
  /\ Cardinality(visited) <= limit
  /\ (Done /\ AllFetchesOk /\ limit < Cardinality(Reachable(seed)))
       => Cardinality(visited) = limit

(***************************************************************************)
(* C4.  A crawl whose fetches all succeed, with page_limit at least the    *)
(* number of reachable pages, ends with exactly the reachable URLs         *)
(* dispatched.                                                             *)
(***************************************************************************)
C4_ExactlyReachable ==
  (Done /\ AllFetchesOk /\ limit >= Cardinality(Reachable(seed)))
    => visited = Reachable(seed)

\* crawl has not returned an error, and a failed seed leaves nothing recorded.
ReturnsOk ==
  /\ ret # "Err"
  /\ Done => ret = "Ok"
  /\ (Done /\ Len(tasks) >= 1 /\ Failed(tasks[1]))
       => (results = <<>> /\ crawl_data = EmptyCrawlData)

FailedTaskSkipsData ==
  \A i \in TaskIds :
    Failed(tasks[i]) =>
      /\ tasks[i].pc \in {"exit", "done", "hung"}
      /\ tasks[i].url \in visited
      /\ variant = "Spider" =>
           /\ tasks[i].url \notin DOMAIN crawl_data.link_graph
           /\ tasks[i].url \notin DOMAIN crawl_data.page_term_counts

FailedTaskStep ==
  \A i \in TaskIds :
    (tasks'[i] # tasks[i] /\ Failed(tasks'[i])) =>
      /\ UNCHANGED <<queue, results, crawl_data, visited>>
      /\ tasks'[i].pc = "done" => permits' = permits + 1

C7_TimeoutEndsTask == Done \/ ENABLED Next

\* The tasks whose scrape returned Ok.
SucceededIds == {i \in TaskIds : Succeeded(tasks[i])}

(***************************************************************************)
(* C8.  When crawl returns, every task it launched has ended and the       *)
(* returned data holds the output of exactly the tasks whose scrape        *)
(* succeeded.                                                              *)
(***************************************************************************)
C8_ReturnsAfterAllTasks ==
  Done =>
    /\ \A i \in TaskIds : tasks[i].pc = "done"
    /\ joined = Len(tasks)
    /\ IF variant = "Crawler"
         THEN /\ Len(results) = Cardinality(SucceededIds)
              /\ \A i \in SucceededIds :
                   CrawlerScrapeResult(tasks[i].url, tasks[i].outcome) \in Range(results)
         ELSE /\ DOMAIN crawl_data.link_graph = {tasks[i].url : i \in SucceededIds}
              /\ DOMAIN crawl_data.page_term_counts = {tasks[i].url : i \in SucceededIds}

\* crawl has returned after three tasks, two of them successful.
C8_Witness ==
  /\ Done
  /\ Len(tasks) = 3
  /\ Cardinality(SucceededIds) = 2

(***************************************************************************)
(* C9.  A fetch answered with a non-success status is skipped like a       *)
(* transport error: its task goes straight to its end, enqueues no links   *)
(* and records nothing.                                                    *)
(***************************************************************************)
C9_NonSuccessStatusSkipped ==
  \A i \in TaskIds :
    tasks[i].outcome = "http_error" =>
      /\ tasks[i].pc \in {"exit", "done"}
      /\ tasks[i].url \notin DOMAIN crawl_data.link_graph
      /\ tasks[i].url \notin DOMAIN crawl_data.page_term_counts

(***************************************************************************)
(* C10.  With a malformed seed URL nothing is ever marked visited and no   *)
(* task is launched.                                                       *)
(***************************************************************************)
C10_MalformedSeedRejected ==
  seed \in Malformed => (visited = {} /\ tasks = <<>> /\ ret # "Ok")

(***************************************************************************)
(* C11.  For every non-empty link graph, dangling nodes included, the      *)
(* ranks of the authority scorer sum to 1 (within RankTolerance) at the    *)
(* start, after every iteration and in the returned map.                   *)
(***************************************************************************)
RankTolerance == Scale \div 1000

C11_RanksSumToOne ==
  (score_pc \in {"iterate", "ranked"} /\ DOMAIN link_graph # {})
    => Abs(SumOf(ranks) - Scale) <= RankTolerance

(***************************************************************************)
(* C12.  The authority scorer returns exactly one score, and a             *)
(* non-negative one, for every URL that is a key or a link target of the   *)
(* graph, and the empty map for the empty graph.                           *)
(***************************************************************************)
C12_OneScorePerNode ==
  score_pc = "ranked"
    => /\ DOMAIN ranks = AllUrls(link_graph)
       /\ \A u \in DOMAIN ranks : ranks[u] >= 0

(***************************************************************************)
(* C14.  Every rank of the map being built in an iteration is the value    *)
(* the update computes from the previous iteration's ranks alone, whatever *)
(* updates ran before it, and the returned map is the one the function     *)
(* PageRank gives for the graph, whatever order the updates ran in.        *)
(***************************************************************************)
C14_SynchronousUpdate ==
  /\ score_pc = "iterate"
       => \A u \in DOMAIN new_ranks :
            new_ranks[u] = NewRank(variant, link_graph, ranks, u)
  /\ score_pc = "ranked" => ranks = PageRank(variant, link_graph)

\* In a later iteration on the cycle A -> B -> C -> A, the updates of B and C
\* have run and the update of A, which reads the rank of C, has not.
C14_Witness ==
  /\ score_pc = "iterate"
  /\ link_graph = CycleGraph
  /\ iter >= 1
  /\ DOMAIN new_ranks = {"B", "C"}

(***************************************************************************)
(* C15.  calculate_pagerank of pagerank.rs terminates: it returns, never   *)
(* runs more than MAX_ITERATIONS iterations, goes on only while the last   *)
(* iteration's total change is not below the threshold, and returns the    *)
(* ranks of its last iteration, which either converged or was the          *)
(* MAX_ITERATIONS-th.                                                      *)
(***************************************************************************)
C15_Bounded ==
  variant = "Crawler" =>
    /\ iter <= MAX_ITERATIONS
    /\ (score_pc = "iterate" /\ iter >= 1) => total_change >= ConvergenceThreshold
    /\ (score_pc = "ranked" /\ DOMAIN link_graph # {}) =>
         /\ iter >= 1
         /\ total_change < ConvergenceThreshold \/ iter = MAX_ITERATIONS
         /\ DOMAIN ranks = AllUrls(link_graph)

C15_Terminates ==
  /\ []C15_Bounded
  /\ (variant = "Crawler") => <>(score_pc = "ranked")

\* calculate_pagerank has returned after several iterations, the last of
\* which converged.
C15_Witness ==
  /\ variant = "Crawler"
  /\ score_pc = "ranked"
  /\ iter > 2
  /\ iter < MAX_ITERATIONS
  /\ total_change < ConvergenceThreshold

(***************************************************************************)
(* C13.  End to end: Crawler::crawl from seed P (P -> Q, R; Q -> R; R      *)
(* links to nothing) with limit 3 and concurrency 1, every fetch           *)
(* succeeding, dispatches exactly P, Q and R, the link graph built from    *)
(* the results has three entries, and the authority scores are ordered     *)
(* R > Q > P.                                                              *)
(***************************************************************************)
C13_EndToEnd ==
  (/\ variant = "Crawler"
   /\ seed = "P"
   /\ limit = 3
   /\ concurrency = 1
   /\ AllFetchesOk
   /\ score_pc \in {"ranked", "indexed"})
    => /\ {tasks[i].url : i \in TaskIds} = {"P", "Q", "R"}
       /\ Cardinality(DOMAIN link_graph) = 3
       /\ DOMAIN ranks = {"P", "Q", "R"}
       /\ ranks["R"] > ranks["Q"]
       /\ ranks["Q"] > ranks["P"]

(***************************************************************************)
(* C16.  A successfully fetched page flagged is_partial is recorded in the *)
(* results with the flag set and its links are enqueued, but no text of it *)
(* reaches the index: the index has no document with a body for it.        *)
(***************************************************************************)
PartialIds ==
  {i \in TaskIds : /\ tasks[i].pc \in {"exit", "done"}
                   /\ tasks[i].outcome = "ok"
                   /\ Web[tasks[i].url].paywalled}

C16_PartialExcluded ==
  variant = "Crawler" =>
    /\ \A i \in PartialIds :
         \E k \in 1..Len(results) :
            /\ results[k].url = tasks[i].url
            /\ results[k].is_partial
    /\ score_pc = "indexed" =>
         \A k \in 1..Len(index) :
            (\E i \in PartialIds : tasks[i].url = index[k].url)
              => DOMAIN index[k].body = {}

(***************************************************************************)
(* C17.  At every point of Spider's crawl, doc_frequencies[term] is the    *)
(* number of pages recorded in page_term_counts whose term counts contain  *)
(* the term; it is at least 1 and at most the number of recorded pages.    *)
(***************************************************************************)
PagesWith(term) ==
  {u \in DOMAIN crawl_data.page_term_counts : term \in DOMAIN crawl_data.page_term_counts[u]}

C17_DocFrequencies ==
  /\ DOMAIN crawl_data.doc_frequencies
       = UNION {DOMAIN crawl_data.page_term_counts[u] : u \in DOMAIN crawl_data.page_term_counts}
  /\ \A term \in DOMAIN crawl_data.doc_frequencies :
       /\ crawl_data.doc_frequencies[term] = Cardinality(PagesWith(term))
       /\ crawl_data.doc_frequencies[term] >= 1
       /\ crawl_data.doc_frequencies[term] <= Cardinality(DOMAIN crawl_data.page_term_counts)

\* Three pages are recorded; rust occurs on two of them, more than once on one.
C17_Witness ==
  /\ variant = "Spider"
  /\ DOMAIN crawl_data.page_term_counts = {"A", "B", "C"}
  /\ crawl_data.doc_frequencies["rust"] = 2

(***************************************************************************)
(* C18.  The ScoredIndex has an entry for (term, url) exactly when the     *)
(* page url has a non-zero count for term, and its value is                *)
(* tf * idf * authority(url) with tf = count / total count of the page and *)
(* idf = log10(recorded pages / doc_frequencies[term]); empty accumulators *)
(* give an empty ScoredIndex.                                              *)
(***************************************************************************)
C18_ScoredIndex ==
  (variant = "Spider" /\ score_pc = "indexed") =>
    LET ptc == crawl_data.page_term_counts
        pages == Cardinality(DOMAIN ptc)
        HasCount(term, u) == u \in DOMAIN ptc /\ term \in DOMAIN ptc[u] /\ ptc[u][term] # 0
        tf(term, u) == (ptc[u][term] * Scale) \div SumOf(ptc[u])
        idf(term) == Log10[pages] - Log10[crawl_data.doc_frequencies[term]]
    IN /\ \A term \in DOMAIN crawl_data.doc_frequencies \cup DOMAIN index :
            \A u \in DOMAIN ptc \cup DOMAIN ranks :
               (term \in DOMAIN index /\ u \in DOMAIN index[term]) <=> HasCount(term, u)
       /\ \A term \in DOMAIN index :
            \A u \in DOMAIN index[term] :
               /\ u \in DOMAIN ranks
               /\ index[term][u] = Mul(Mul(tf(term, u), idf(term)), ranks[u])
       /\ DOMAIN ptc = {} => DOMAIN index = {}

\* The index of three pages has a non-zero score.
C18_Witness ==
  /\ variant = "Spider"
  /\ score_pc = "indexed"
  /\ Cardinality(DOMAIN crawl_data.page_term_counts) = 3
  /\ \E term \in DOMAIN index : \E u \in DOMAIN index[term] : index[term][u] > 0

(***************************************************************************)
(* C19.  A term that occurs on every recorded page has the score 0 in the  *)
(* ScoredIndex for every URL.                                              *)
(***************************************************************************)
C19_UbiquitousTermScoresZero ==
  (variant = "Spider" /\ score_pc = "indexed") =>
    \A term \in DOMAIN index :
       (\A u \in DOMAIN crawl_data.page_term_counts :
           term \in DOMAIN crawl_data.page_term_counts[u])
         => \A u \in DOMAIN index[term] : index[term][u] = 0

\* rust occurs on each of the three recorded pages, with different frequencies.
C19_Witness ==
  /\ variant = "Spider"
  /\ score_pc = "indexed"
  /\ DOMAIN crawl_data.page_term_counts = {"P", "Q", "R"}
  /\ DOMAIN index["rust"] = {"P", "Q", "R"}

(***************************************************************************)
(* C20.  Scoring starts only after crawl has returned with every task      *)
(* finished: once the scoring phase has begun no task is running, and no   *)
(* step changes the results, the link graph or the term accumulators.      *)
(***************************************************************************)
C20_NoTaskRuns ==
  score_pc # "idle" => \A i \in TaskIds : tasks[i].pc = "done"

C20_ScoringAfterCrawl ==
  /\ []C20_NoTaskRuns
  /\ [][score_pc # "idle" => (results' = results /\ crawl_data' = crawl_data)]_vars

\* The index has been built from a crawl in which a fetch failed.
C20_Witness ==
  /\ score_pc = "indexed"
  /\ Len(tasks) >= 3
  /\ \E i \in TaskIds : Failed(tasks[i])

(***************************************************************************)
(* C21.  A node of the graph with no edges in or out gets the pure         *)
(* random-jump rank (1 - damping) / N from calculate_pagerank, N being the *)
(* number of nodes; so does the node of the graph that consists of one     *)
(* node without edges, in either version of the scorer.                    *)
(***************************************************************************)
Isolated(g, u) == u \in DOMAIN g /\ g[u] = {} /\ IncomingLinks(g, u) = {}

C21_IsolatedNode ==
  score_pc = "ranked" =>
    \A u \in DOMAIN link_graph :
       (/\ Isolated(link_graph, u)
        /\ variant = "Crawler" \/ Cardinality(AllUrls(link_graph)) = 1)
         => ranks[u] = ((100 - DAMPING_FACTOR_PCT) * Scale)
                         \div (100 * Cardinality(AllUrls(link_graph)))

\* calculate_pagerank has returned for the graph of the single node A.
C21_Witness ==
  /\ variant = "Crawler"
  /\ score_pc = "ranked"
  /\ iter >= 1
  /\ DOMAIN link_graph = {"A"}
  /\ link_graph["A"] = {}

(***************************************************************************)
(* C22.  Dilution by out-degree: T1, linked to by K pages of out-degree 1, *)
(* gets strictly more authority than T2, linked to by K pages of           *)
(* out-degree HighOutDegree, all else equal.                               *)
(***************************************************************************)
C22_Dilution ==
  (score_pc = "ranked" /\ link_graph \in DilutionGraphs)
    => ranks["T1"] > ranks["T2"]

\* The scorer has ranked the graph with two sources on each side.
C22_Witness ==
  /\ variant = "Crawler"
  /\ score_pc = "ranked"
  /\ link_graph = DilutionGraph(2)
  /\ DOMAIN ranks = AllUrls(DilutionGraph(2))

(***************************************************************************)
(* C24.  crawl never stops early: once the coordinator has left the        *)
(* dispatch loop, page_limit URLs have been dispatched, or the Frontier is *)
(* empty and no task is in flight.                                         *)
(***************************************************************************)
C24_NeverStopsEarly ==
  pc \in {"join", "done"}
    => \/ Cardinality(visited) >= limit
       \/ queue = <<>> /\ InFlight = {}

(***************************************************************************)
(* C25.  The Frontier is FIFO: a step either leaves it alone, or removes   *)
(* its first URL and hands it to the coordinator, or appends the links of  *)
(* one task's result at its end, contiguously and in the result's order.   *)
(***************************************************************************)
C25_Fifo ==
  [][\/ queue' = queue
     \/ /\ queue # <<>>
        /\ queue' = Tail(queue)
        /\ url' = Head(queue)
     \/ \E i \in TaskIds :
          /\ tasks[i].pc = "links"
          /\ queue' = queue \o ScrapedLinks(variant, tasks[i].url, tasks[i].outcome)]_vars

\* A's links B, C were enqueued, B was dequeued and its links A, C were
\* enqueued behind C.
C25_Witness ==
  /\ Len(tasks) = 2
  /\ tasks[2].url = "B"
  /\ queue = <<"C", "A", "C">>

(***************************************************************************)
(* C26.  Every extracted link of a successful fetch is appended to the     *)
(* Frontier, visited or queued already or not; a dequeued URL that is      *)
(* already visited is discarded: no task is launched, the Visited Set      *)
(* stays as it is, and the permit is given back.                           *)
(***************************************************************************)
C26_DuplicatesFilteredAtDequeue ==
  [][/\ \A i \in TaskIds :
          (tasks[i].pc = "links" /\ tasks'[i].pc # "links")
            => /\ Len(queue') = Len(queue) + Len(Document(tasks[i].url, tasks[i].outcome).links)
               /\ \A k \in 1..Len(Document(tasks[i].url, tasks[i].outcome).links) :
                    queue'[Len(queue) + k] = Document(tasks[i].url, tasks[i].outcome).links[k]
     /\ (pc = "visit" /\ pc' # "visit" /\ url \in visited)
          => /\ Len(tasks') = Len(tasks)
             /\ visited' = visited
             /\ permits' = permits + 1]_vars

\* A, B and C were crawled below the limit; the duplicates A, C, C that the
\* pages enqueued have been dequeued and discarded.
C26_Witness ==
  /\ Done
  /\ seed = "A"
  /\ limit = 4
  /\ visited = {"A", "B", "C"}
  /\ queue = <<>>
  /\ AllFetchesOk

(***************************************************************************)
(* C27.  After Crawler's crawl the Link Graph built from the results has   *)
(* exactly one entry for every successfully fetched page, holding the      *)
(* page's links under the page's final URL, and none for a page whose      *)
(* fetch failed; no two results carry the same url.                        *)
(***************************************************************************)
C27_LinkGraphEntries ==
  (variant = "Crawler" /\ score_pc # "idle") =>
    /\ \A j, k \in 1..Len(results) : j # k => results[j].url # results[k].url
    /\ Cardinality(DOMAIN link_graph) = Cardinality(SucceededIds)
    /\ DOMAIN link_graph
         = {Document(tasks[i].url, tasks[i].outcome).final_url : i \in SucceededIds}
    /\ \A i \in SucceededIds :
         link_graph[Document(tasks[i].url, tasks[i].outcome).final_url]
           = Range(Document(tasks[i].url, tasks[i].outcome).links)

(***************************************************************************)
(* C28.  No permit is leaked: the permits taken from the semaphore are     *)
(* those of the tasks in flight plus the one the coordinator holds between *)
(* acquiring it and spawning or giving it back, and all permits are        *)
(* available when crawl has returned.                                      *)
(***************************************************************************)
C28_NoPermitLeak ==
  /\ concurrency - permits
       = Cardinality(InFlight) + (IF pc \in {"pop", "visit"} THEN 1 ELSE 0)
  /\ Done => permits = concurrency

\* The coordinator holds a permit for a URL it is about to skip while a task
\* is in flight.
C28_Witness ==
  /\ pc = "visit"
  /\ url \in visited
  /\ Cardinality(InFlight) = 1
  /\ permits = 0

(***************************************************************************)
(* C29.  At every point of Spider's crawl page_term_counts and link_graph  *)
(* have the same keys, so every scored page has a computed PageRank and    *)
(* the fallback authority is never used.                                   *)
(***************************************************************************)
C29_SameKeys ==
  variant = "Spider" =>
    /\ DOMAIN crawl_data.page_term_counts = DOMAIN crawl_data.link_graph
    /\ score_pc \in {"ranked", "indexed"}
         => DOMAIN crawl_data.page_term_counts \subseteq DOMAIN ranks

\* The pages P, Q and R, of which R has no links, have been ranked.
C29_Witness ==
  /\ variant = "Spider"
  /\ score_pc = "ranked"
  /\ DOMAIN crawl_data.page_term_counts = {"P", "Q", "R"}
  /\ DOMAIN ranks = {"P", "Q", "R"}

RECURSIVE QueryScore(_, _)
\* the sum of the scores of u over the first k query terms
QueryScore(u, k) ==
  IF k = 0 THEN 0
  ELSE QueryScore(u, k - 1)
         + (IF query_terms[k] \in DOMAIN loaded /\ u \in DOMAIN loaded[query_terms[k]]
              THEN loaded[query_terms[k]][u] ELSE 0)

Matching ==
  {u \in UNION {DOMAIN loaded[t] : t \in DOMAIN loaded} :
     \E k \in 1..Len(query_terms) :
        query_terms[k] \in DOMAIN loaded /\ u \in DOMAIN loaded[query_terms[k]]}

C30_TopTen ==
  (search_pc = "prompt" /\ query_terms # <<>>) =>
    /\ \A k \in 1..Len(query_terms) :
         query_terms[k] \notin {"Rust", "WEB", Whitespace}
    /\ Len(listed) <= TOP_RESULTS
    /\ Len(listed) = (IF Cardinality(Matching) < TOP_RESULTS
                        THEN Cardinality(Matching) ELSE TOP_RESULTS)
    /\ \A i \in 1..Len(listed) :
         /\ listed[i].url \in Matching
         /\ listed[i].score = QueryScore(listed[i].url, Len(query_terms))
    /\ \A i, j \in 1..Len(listed) :
         /\ i < j => listed[i].score >= listed[j].score
         /\ i # j => listed[i].url # listed[j].url
    /\ \A u \in Matching :
         (\A i \in 1..Len(listed) : listed[i].url # u)
           => \A i \in 1..Len(listed) :
                listed[i].score >= QueryScore(u, Len(query_terms))

\* A query of two terms matched more than ten URLs, and the ten best are
\* listed, first the URL that has a score under both terms.
C30_Witness ==
  /\ search_pc = "prompt"
  /\ query_terms = <<"web", "rust">>
  /\ Cardinality(Matching) > TOP_RESULTS
  /\ Len(listed) = TOP_RESULTS
  /\ listed[1].url = "u1"

(***************************************************************************)
(* C31.  The "en_stem" tokenizer is registered on an Index right after the *)
(* Index is created or opened: the indexer has registered it when it       *)
(* writes documents, and the searcher has registered it when it parses or  *)
(* runs a query.                                                           *)
(***************************************************************************)
C31_TokenizerRegistered ==
  /\ (variant = "Crawler" /\ score_pc = "indexed" /\ Len(index) > 0)
       => index_en_stem = "registered"
  /\ tantivy_pc \in {"ready", "answered"} => query_en_stem = "registered"

====
